---- MODULE Spec2Model ----
(***************************************************************************)
(* TrafficDataMarketplace (contracts/TrafficData_Z.sol): the record store, *)
(* the aggregate store and the escrow ledger, as a state machine.          *)
(*                                                                         *)
(* Every external call of the contract is one atomic step (an EVM          *)
(* transaction either commits or reverts as a whole), with one exception:  *)
(* withdraw hands control to the payee in the middle of its body           *)
(* (payable(msg.sender).transfer), so it is split at that call.  While the *)
(* payee runs it may call withdraw again (a re-entrant call), return, or   *)
(* revert; a revert undoes the frame it belongs to.                        *)
(***************************************************************************)
EXTENDS Integers, Sequences, FiniteSets, TLC

\* ------------------------------------------------------------------ bounds
\* Caps on the two counters, which the contract leaves unbounded.
MaxRecords == 1
MaxDatasets == 2
\* Cap on the entries of each table in the specification of the decryption
\* protocol.
MaxTargets == 1

\* Externally owned accounts or contracts calling the marketplace.
Principals == {1, 2}
\* address(0), the owner field of a mapping slot never written.
ZeroAddress == 0

RecordIds == 0 .. (MaxRecords - 1)
DataIds == 0 .. (MaxDatasets - 1)
\* block.timestamp of a transaction, and the startTime/endTime a caller passes.
Times == {1, 2}
\* price and msg.value, in wei.
Prices == {0, 2}
Values == {1, 2, 3}

\* An external ciphertext as the caller passes it: the handle and whether the
\* input proof that comes with it verifies.  Handle 0 is the uninitialized
\* euint32.
ExternalInputs == { [handle |-> 1, proofOk |-> TRUE],
                    [handle |-> 1, proofOk |-> FALSE],
                    [handle |-> 0, proofOk |-> TRUE] }
ValidCiphertexts == {ct \in ExternalInputs : ct.proofOk /\ ct.handle # 0}

\* ------------------------------------------------------- revert reasons
Ok == "ok"
Pending == "in transfer"
InvalidProof == "input proof rejected"
InvalidSpeed == "Invalid encrypted speed"
InvalidLocationX == "Invalid encrypted location X"
InvalidLocationY == "Invalid encrypted location Y"
InvalidHeatmap == "Invalid encrypted heatmap value"
InvalidTimeRange == "Invalid time range"
InvalidPrice == "Price must be greater than zero"
NotFound == "Invalid data ID"
InvalidRecordId == "Invalid record ID"
AlreadySold == "Data already sold"
InsufficientPayment == "Insufficient payment"
NoFunds == "No funds to withdraw"
TransferFailed == "transfer failed"

VARIABLES
    trafficRecords,      \* mapping(uint256 => TrafficRecord)
    aggregatedData,      \* mapping(uint256 => AggregatedData)
    withdrawals,         \* mapping(address => uint256): the escrow balances
    recordCount,
    aggregatedCount,
    allowedThis,         \* handles the contract was granted access to
    publiclyDecryptable, \* handles marked publicly decryptable
    events,              \* the logs of the current transaction, in order
    balance,             \* address(this).balance
    stack,               \* withdraw frames suspended in their transfer
    last,                \* the latest call and its outcome
    prevW,               \* per principal: outcome of an unpaired withdraw
                         \* (kept by SpecPairs only)
    proven,              \* per dataset: isVerified and decryptedValue, the
                         \* proven plaintext (written in SpecDecrypt only)
    attempts,            \* per client: its decryptData call (SpecDecrypt)
    atEmit               \* per log of events: the storage as the emit
                         \* statement found it (kept by SpecEmit only)

storage == <<trafficRecords, aggregatedData, withdrawals, recordCount,
             aggregatedCount>>
acl == <<allowedThis, publiclyDecryptable>>
verification == <<proven, attempts>>
vars == <<trafficRecords, aggregatedData, withdrawals, recordCount,
          aggregatedCount, allowedThis, publiclyDecryptable, events, balance,
          stack, last, prevW,
          proven, attempts, atEmit>>

\* ---------------------------------------------------------------- structs
ZeroRecord == [encryptedSpeed |-> 0, encryptedLocationX |-> 0,
               encryptedLocationY |-> 0, timestamp |-> 0,
               vehicleOwner |-> ZeroAddress]

ZeroData == [encryptedHeatmapValue |-> 0, startTime |-> 0, endTime |-> 0,
             price |-> 0, owner |-> ZeroAddress, isSold |-> FALSE]

\* None of the four functions declares a return value (lines 46, 77, 98,
\* 109): what a call hands back to its caller is empty.
ReturnData(op) == <<>>

\* What the frontend reads of an entry before it decides to decrypt
\* (businessData.isVerified, businessData.decryptedValue): unset at first.
Unverified == [isVerified |-> FALSE, decryptedValue |-> 0]

\* decryptData returns a number or null.
Null == -1

\* A decryption proof attests one value for one handle; NoProof attests
\* nothing.  A payload is what the decryption service hands back: the clear
\* value it claims and the proof.
NoProof == [handle |-> 0, value |-> Null]
NoPayload == [clear |-> Null, proof |-> NoProof]

\* A client's decryptData call: where it stands, the entry it is about, the
\* handle it asked the service to decrypt, the payload it holds, and the
\* value it has returned.
IdleAttempt ==
    [phase |-> "Idle", target |-> 0, handle |-> 0, payload |-> NoPayload,
     value |-> Null]

NoCall == [op |-> "none", result |-> Ok, returned |-> <<>>]

Call(op, result) == [op |-> op, result |-> result, returned |-> ReturnData(op)]

RECURSIVE SumOver(_, _)
SumOver(f, S) ==
    IF S = {} THEN 0
    ELSE LET x == CHOOSE y \in S : TRUE IN f[x] + SumOver(f, S \ {x})

\* ------------------------------------------------------- FHE library calls
\* FHE.fromExternal(handle, proof): reverts when the input proof does not
\* verify, otherwise yields the handle.
FromExternalReverts(ct) == ~ct.proofOk
FromExternal(ct) == ct.handle
\* FHE.isInitialized(v)
IsInitialized(h) == h # 0

\* The outcome of require(FHE.isInitialized(FHE.fromExternal(ct, proof)), msg).
RequireInitialized(ct, msg) ==
    IF FromExternalReverts(ct) THEN InvalidProof
    ELSE IF ~IsInitialized(FromExternal(ct)) THEN msg
    ELSE Ok

Init ==
    /\ trafficRecords = [i \in RecordIds |-> ZeroRecord]
    /\ aggregatedData = [i \in DataIds |-> ZeroData]
    /\ withdrawals = [p \in Principals |-> 0]
    /\ recordCount = 0
    /\ aggregatedCount = 0
    /\ allowedThis = {}
    /\ publiclyDecryptable = {}
    /\ events = <<>>
    /\ balance = 0
    /\ stack = <<>>
    /\ last = NoCall
    /\ prevW = [p \in Principals |-> "none"]
    /\ proven = [i \in DataIds |-> Unverified]
    /\ attempts = [c \in Principals |-> IdleAttempt]
    /\ atEmit = <<>>

\* A counter that is not advanced.
NextId_Stuck(count) == count

\* recordCount++ (line 68) and aggregatedCount++ (line 95).
NextId(count) == count + 1

\* ------------------------------------------------------------------ events
TrafficRecordAdded(recordId, vehicleOwner) ==
    [name |-> "TrafficRecordAdded", id |-> recordId, addr |-> vehicleOwner,
     amount |-> 0]
AggregatedDataCreated(dataId, owner) ==
    [name |-> "AggregatedDataCreated", id |-> dataId, addr |-> owner,
     amount |-> 0]
DataSold(dataId, buyer) ==
    [name |-> "DataSold", id |-> dataId, addr |-> buyer, amount |-> 0]
Withdrawal(payee, amount) ==
    [name |-> "Withdrawal", id |-> 0, addr |-> payee, amount |-> amount]

\* ------------------------------------------------------- addTrafficRecord
AddResult_NoLocationYCheck(speed, locX, locY) ==
    IF RequireInitialized(speed, InvalidSpeed) # Ok
    THEN RequireInitialized(speed, InvalidSpeed)
    ELSE RequireInitialized(locX, InvalidLocationX)

\* The three requires, in order: the first that fails is the revert reason.
AddResult(speed, locX, locY) ==
    IF RequireInitialized(speed, InvalidSpeed) # Ok
    THEN RequireInitialized(speed, InvalidSpeed)
    ELSE IF RequireInitialized(locX, InvalidLocationX) # Ok
    THEN RequireInitialized(locX, InvalidLocationX)
    ELSE RequireInitialized(locY, InvalidLocationY)

NewRecord_WrongOwner(speed, locX, locY, sender, now) ==
    [encryptedSpeed |-> FromExternal(speed),
     encryptedLocationX |-> FromExternal(locX),
     encryptedLocationY |-> FromExternal(locY),
     timestamp |-> now,
     vehicleOwner |-> ZeroAddress]

NewRecord(speed, locX, locY, sender, now) ==
    [encryptedSpeed |-> FromExternal(speed),
     encryptedLocationX |-> FromExternal(locX),
     encryptedLocationY |-> FromExternal(locY),
     timestamp |-> now,
     vehicleOwner |-> sender]

\* A submission that stores its values and grants nothing.
RecordHandles_None(r) == {}

\* The values lines 59-65 grant to the contract and mark public.
RecordHandles(r) ==
    {r.encryptedSpeed, r.encryptedLocationX, r.encryptedLocationY}

\* `now` is block.timestamp of the transaction.
AddTrafficRecord(sender, now, speed, locX, locY) ==
    LET r == AddResult(speed, locX, locY)
        rec == NewRecord(speed, locX, locY, sender, now)
    IN  /\ stack = <<>>
        /\ recordCount < MaxRecords
        /\ last' = Call("addTrafficRecord", r)
        /\ IF r = Ok
           THEN /\ trafficRecords' = [trafficRecords EXCEPT ![recordCount] = rec]
                /\ allowedThis' = allowedThis \cup RecordHandles(rec)
                /\ publiclyDecryptable' =
                       publiclyDecryptable \cup RecordHandles(rec)
                /\ events' = <<TrafficRecordAdded(recordCount, sender)>>
                /\ recordCount' = NextId(recordCount)
           ELSE /\ events' = <<>>
                /\ UNCHANGED <<trafficRecords, allowedThis,
                               publiclyDecryptable, recordCount>>
        /\ UNCHANGED <<aggregatedData, withdrawals, aggregatedCount, balance,
                       stack>>

\* --------------------------------------------------- createAggregatedData
CreateResult_NoTimeCheck(heatmap, startTime, endTime, price) ==
    IF RequireInitialized(heatmap, InvalidHeatmap) # Ok
    THEN RequireInitialized(heatmap, InvalidHeatmap)
    ELSE IF ~(price > 0) THEN InvalidPrice
    ELSE Ok

\* The requires of lines 79 and 80 in the other order.
CreateResult_PriceFirst(heatmap, startTime, endTime, price) ==
    IF RequireInitialized(heatmap, InvalidHeatmap) # Ok
    THEN RequireInitialized(heatmap, InvalidHeatmap)
    ELSE IF ~(price > 0) THEN InvalidPrice
    ELSE IF ~(startTime < endTime) THEN InvalidTimeRange
    ELSE Ok

\* The three requires of lines 78-80, in order.
CreateResult(heatmap, startTime, endTime, price) ==
    IF RequireInitialized(heatmap, InvalidHeatmap) # Ok
    THEN RequireInitialized(heatmap, InvalidHeatmap)
    ELSE IF ~(startTime < endTime) THEN InvalidTimeRange
    ELSE IF ~(price > 0) THEN InvalidPrice
    ELSE Ok

NewData_SwappedTimes(heatmap, startTime, endTime, price, sender) ==
    [encryptedHeatmapValue |-> FromExternal(heatmap),
     startTime |-> endTime,
     endTime |-> startTime,
     price |-> price,
     owner |-> sender,
     isSold |-> FALSE]

NewData(heatmap, startTime, endTime, price, sender) ==
    [encryptedHeatmapValue |-> FromExternal(heatmap),
     startTime |-> startTime,
     endTime |-> endTime,
     price |-> price,
     owner |-> sender,
     isSold |-> FALSE]

CreateAggregatedData(sender, heatmap, startTime, endTime, price) ==
    LET r == CreateResult(heatmap, startTime, endTime, price)
        d == NewData(heatmap, startTime, endTime, price, sender)
    IN  /\ stack = <<>>
        /\ aggregatedCount < MaxDatasets
        /\ last' = Call("createAggregatedData", r)
        /\ IF r = Ok
           THEN /\ aggregatedData' =
                       [aggregatedData EXCEPT ![aggregatedCount] = d]
                /\ allowedThis' = allowedThis \cup {d.encryptedHeatmapValue}
                /\ publiclyDecryptable' =
                       publiclyDecryptable \cup {d.encryptedHeatmapValue}
                /\ events' = <<AggregatedDataCreated(aggregatedCount, sender)>>
                /\ aggregatedCount' = NextId(aggregatedCount)
           ELSE /\ events' = <<>>
                /\ UNCHANGED <<aggregatedData, allowedThis,
                               publiclyDecryptable, aggregatedCount>>
        /\ UNCHANGED <<trafficRecords, withdrawals, recordCount, balance,
                       stack>>

\* ----------------------------------------------------------- purchaseData
PurchaseResult_NoPaymentCheck(dataId, value) ==
    IF ~(dataId < aggregatedCount) THEN NotFound
    ELSE IF aggregatedData[dataId].isSold THEN AlreadySold
    ELSE Ok

PurchaseResult_StrictPayment(dataId, value) ==
    IF ~(dataId < aggregatedCount) THEN NotFound
    ELSE IF aggregatedData[dataId].isSold THEN AlreadySold
    ELSE IF ~(value > aggregatedData[dataId].price) THEN InsufficientPayment
    ELSE Ok

\* The three requires of purchaseData, in order.
PurchaseResult(dataId, value) ==
    IF ~(dataId < aggregatedCount) THEN NotFound
    ELSE IF aggregatedData[dataId].isSold THEN AlreadySold
    ELSE IF ~(value >= aggregatedData[dataId].price) THEN InsufficientPayment
    ELSE Ok

Credited_PriceOnly(dataId, value) == aggregatedData[dataId].price

\* The amount line 103 adds to the owner's balance: the whole msg.value.
Credited(dataId, value) == value

\* A sale that also clears the price.
MarkSold_ClearsPrice(data) == [data EXCEPT !.isSold = TRUE, !.price = 0]

MarkSold_Forgotten(data) == data

\* Line 104.
MarkSold(data) == [data EXCEPT !.isSold = TRUE]

\* msg.value reaches the contract's balance only when the call does not revert.
PurchaseData(sender, dataId, value) ==
    LET r == PurchaseResult(dataId, value)
        owner == aggregatedData[dataId].owner
    IN  /\ stack = <<>>
        /\ last' = Call("purchaseData", r)
        /\ IF r = Ok
           THEN /\ withdrawals' =
                       [withdrawals EXCEPT
                           ![owner] = @ + Credited(dataId, value)]
                /\ aggregatedData' =
                       [aggregatedData EXCEPT
                           ![dataId] = MarkSold(aggregatedData[dataId])]
                /\ events' = <<DataSold(dataId, sender)>>
                /\ balance' = balance + value
           ELSE /\ events' = <<>>
                /\ UNCHANGED <<withdrawals, aggregatedData, balance>>
        /\ UNCHANGED <<trafficRecords, recordCount, aggregatedCount, acl,
                       stack>>

\* ---------------------------------------------------------------- withdraw
WithdrawResult_NoRequire(amount) == Pending

WithdrawResult_NonNegative(amount) == IF amount >= 0 THEN Pending ELSE NoFunds

\* Line 111; a call that passes it goes on to the transfer.
WithdrawResult(amount) == IF amount > 0 THEN Pending ELSE NoFunds

\* A withdraw that clears the whole table.
ZeroBalance_Everyone(w, sender) == [p \in DOMAIN w |-> 0]

ZeroBalance_Skipped(w, sender) == w

\* Line 113.
ZeroBalance(w, sender) == [w EXCEPT ![sender] = 0]

\* A revert that brings back the ether and the logs but not the balances:
\* it restores them as line 113 leaves them.
Snapshot_BalancesLost ==
    [withdrawals |-> [p \in Principals |-> 0], balance |-> balance,
     events |-> IF stack = <<>> THEN <<>> ELSE events]

\* What a revert of a frame restores: all that a call made while the frame is
\* suspended can have written.
Snapshot == [withdrawals |-> withdrawals, balance |-> balance,
             events |-> IF stack = <<>> THEN <<>> ELSE events]

Top == stack[Len(stack)]

\* withdraw() up to the point where transfer hands control to the payee.
\* It is called by a transaction (empty stack) or, re-entrantly, by the payee
\* that is being paid.  transfer itself reverts when the contract holds less
\* than the amount.
Withdraw(sender) ==
    LET amount == withdrawals[sender]
        r == IF WithdrawResult(amount) = Pending /\ balance < amount
             THEN TransferFailed
             ELSE WithdrawResult(amount)
    IN  /\ IF stack = <<>> THEN TRUE ELSE sender = Top.sender
        /\ last' = Call("withdraw", r)
        /\ IF r = Pending
           THEN /\ withdrawals' = ZeroBalance(withdrawals, sender)
                /\ balance' = balance - amount
                /\ stack' = Append(stack, [sender |-> sender,
                                           amount |-> amount,
                                           snap |-> Snapshot])
           ELSE UNCHANGED <<withdrawals, balance, stack>>
        /\ events' = IF stack = <<>> THEN <<>> ELSE events
        /\ UNCHANGED <<trafficRecords, aggregatedData, recordCount,
                       aggregatedCount, acl>>

\* The payee took the ether: withdraw emits its event and returns.
TransferReturn ==
    /\ stack # <<>>
    /\ last' = Call("transfer", Ok)
    /\ events' = Append(events, Withdrawal(Top.sender, Top.amount))
    /\ stack' = SubSeq(stack, 1, Len(stack) - 1)
    /\ UNCHANGED <<storage, acl, balance>>

\* The payee refused the ether (it reverted or ran out of the gas stipend):
\* transfer reverts, and with it the whole withdraw.
TransferFail ==
    /\ stack # <<>>
    /\ last' = Call("transfer", TransferFailed)
    /\ withdrawals' = Top.snap.withdrawals
    /\ balance' = Top.snap.balance
    /\ events' = Top.snap.events
    /\ stack' = SubSeq(stack, 1, Len(stack) - 1)
    /\ UNCHANGED <<trafficRecords, aggregatedData, recordCount,
                   aggregatedCount, acl>>

\* ------------------------------------------------------------ the views
\* getTrafficRecord: the require of line 126, then the five fields in the
\* order of the returns clause.
GetTrafficRecord_OffByOne(recordId) ==
    IF recordId <= recordCount
    THEN [result |-> Ok,
          returned |-> <<ZeroRecord.encryptedSpeed,
                         ZeroRecord.encryptedLocationX,
                         ZeroRecord.encryptedLocationY,
                         ZeroRecord.timestamp,
                         ZeroRecord.vehicleOwner>>]
    ELSE [result |-> InvalidRecordId, returned |-> <<>>]

GetTrafficRecord(recordId) ==
    IF recordId < recordCount
    THEN [result |-> Ok,
          returned |-> <<trafficRecords[recordId].encryptedSpeed,
                         trafficRecords[recordId].encryptedLocationX,
                         trafficRecords[recordId].encryptedLocationY,
                         trafficRecords[recordId].timestamp,
                         trafficRecords[recordId].vehicleOwner>>]
    ELSE [result |-> InvalidRecordId, returned |-> <<>>]

\* getAggregatedData: the require of line 145, then the six fields.
GetAggregatedData(dataId) ==
    IF dataId < aggregatedCount
    THEN [result |-> Ok,
          returned |-> <<aggregatedData[dataId].encryptedHeatmapValue,
                         aggregatedData[dataId].startTime,
                         aggregatedData[dataId].endTime,
                         aggregatedData[dataId].price,
                         aggregatedData[dataId].owner,
                         aggregatedData[dataId].isSold>>]
    ELSE [result |-> NotFound, returned |-> <<>>]

GetTotalRecords == recordCount
GetTotalAggregatedData == aggregatedCount

Next ==
    \/ \E sender \in Principals, now \in Times,
          speed, locX, locY \in ExternalInputs :
           /\ AddTrafficRecord(sender, now, speed, locX, locY)
           /\ UNCHANGED <<prevW, verification, atEmit>>
    \/ \E sender \in Principals, heatmap \in ExternalInputs,
          startTime, endTime \in Times, price \in Prices :
           /\ CreateAggregatedData(sender, heatmap, startTime, endTime, price)
           /\ UNCHANGED <<prevW, verification, atEmit>>
    \/ \E sender \in Principals, dataId \in 0 .. MaxDatasets, value \in Values :
           /\ PurchaseData(sender, dataId, value)
           /\ UNCHANGED <<prevW, verification, atEmit>>
    \/ \E sender \in Principals :
           /\ Withdraw(sender)
           /\ UNCHANGED <<prevW, verification, atEmit>>
    \/ TransferReturn /\ UNCHANGED <<prevW, verification, atEmit>>
    \/ TransferFail /\ UNCHANGED <<prevW, verification, atEmit>>

Spec == Init /\ [][Next]_vars

\* The same machine, which also remembers per principal how its withdraw
\* calls ended: prevW[p] is "none" after a purchase of a dataset of p, the
\* outcome of the latest withdraw of p that began with a positive balance, and
\* "paired" once a NoFunds failure has followed such a call.  Only the calls
\* made by transactions count; the re-entrant ones end inside another call.
PairedW(sender, result) ==
    [prevW EXCEPT ![sender] =
        IF result # NoFunds THEN result
        ELSE IF @ = "none" THEN "none"
        ELSE "paired"]

NextPairs ==
    \/ \E sender \in Principals, now \in Times,
          speed \in ExternalInputs, locX, locY \in ValidCiphertexts :
           /\ AddTrafficRecord(sender, now, speed, locX, locY)
           /\ UNCHANGED <<prevW, verification, atEmit>>
    \/ \E sender \in Principals, heatmap \in ExternalInputs,
          startTime, endTime \in Times, price \in Prices :
           /\ CreateAggregatedData(sender, heatmap, startTime, endTime, price)
           /\ UNCHANGED <<prevW, verification, atEmit>>
    \/ \E sender \in Principals, dataId \in 0 .. MaxDatasets, value \in Values :
           /\ PurchaseData(sender, dataId, value)
           /\ prevW' = IF last'.result = Ok
                        THEN [prevW EXCEPT ![aggregatedData[dataId].owner] = "none"]
                        ELSE prevW
           /\ UNCHANGED <<verification, atEmit>>
    \/ \E sender \in Principals :
           /\ Withdraw(sender)
           /\ prevW' = IF stack = <<>> /\ last'.result # Pending
                        THEN PairedW(sender, last'.result)
                        ELSE prevW
           /\ UNCHANGED <<verification, atEmit>>
    \/ /\ TransferReturn
       /\ prevW' = IF Len(stack) = 1 THEN PairedW(Top.sender, Ok) ELSE prevW
       /\ UNCHANGED <<verification, atEmit>>
    \/ /\ TransferFail
       /\ prevW' = IF Len(stack) = 1 THEN PairedW(Top.sender, TransferFailed)
                    ELSE prevW
       /\ UNCHANGED <<verification, atEmit>>

SpecPairs == Init /\ [][NextPairs]_vars

\* ------------------------------------------------- decryption verification
\* decryptData (App.tsx, lines 202-261) and what it calls.  The contract
\* functions it calls (getBusinessData, getEncryptedValue, verifyDecryption)
\* and the useDecrypt hook are not part of the sources at hand: they are
\* modelled after section 4.4 of the specification and after what decryptData
\* expects of them.  The entries it decrypts are the datasets.

\* The clear value of a handle, and a value that is not it.
ClearOf(h) == h + 4
WrongValue == 9
OtherHandle == 2

\* What the decryption service may hand back for a handle: the true value
\* with its proof, another value with that proof, or the value with a proof
\* made for another handle.
Payloads(h) ==
    { [clear |-> ClearOf(h), proof |-> [handle |-> h, value |-> ClearOf(h)]],
      [clear |-> WrongValue, proof |-> [handle |-> h, value |-> ClearOf(h)]],
      [clear |-> ClearOf(h),
       proof |-> [handle |-> OtherHandle, value |-> ClearOf(h)]] }

\* A check that looks at the proof's handle only.
CheckSignatures_HandleOnly(h, payload) == payload.proof.handle = h

\* The ledger verification check: the proof attests this clear value for
\* this handle.
CheckSignatures(h, payload) ==
    payload.proof = [handle |-> h, value |-> payload.clear]

AlreadyVerified == "Data already verified"
ProofInvalid == "proof rejected"

DecryptionVerified(dataId, value) ==
    [name |-> "DecryptionVerified", id |-> dataId, addr |-> ZeroAddress,
     amount |-> value]

\* Lines 214 and 225.
GetBusinessData(dataId) == proven[dataId]
GetEncryptedValue(dataId) == aggregatedData[dataId].encryptedHeatmapValue

\* A short-circuit that falls back to 0 whatever is stored.
StoredValue_Zero(dataId) == 0

\* Line 216: Number(businessData.decryptedValue) || 0.
StoredValue(dataId) ==
    IF GetBusinessData(dataId).decryptedValue = 0 THEN 0
    ELSE GetBusinessData(dataId).decryptedValue

\* Lines 215-220: an entry that is verified is not decrypted again.
ShortCircuits_Never(dataId) == FALSE

ShortCircuits(dataId) == GetBusinessData(dataId).isVerified

\* The handles a client may ask the decryption service for.
Handles == {1, OtherHandle}

\* The contract grants access to itself and marks values public (lines 59-65,
\* 91-92); it never grants a value to a principal.
Accessible(h, c) == FALSE

AccessDenied == "access denied"

\* The decryption service takes a request for the handles that are publicly
\* decryptable or accessible to the caller, and refuses the others.
RequestResult(c, h) ==
    IF h \in publiclyDecryptable \/ Accessible(h, c) THEN Ok ELSE AccessDenied

\* The attempt after its request was answered with r.
Requested(r, dataId, h) ==
    IF r = Ok
    THEN [phase |-> "Requested", target |-> dataId, handle |-> h,
          payload |-> NoPayload, value |-> Null]
    ELSE [phase |-> "AccessDenied", target |-> dataId, handle |-> h,
          payload |-> NoPayload, value |-> Null]

Finished == {"Idle", "Committed", "Failed", "AlreadyProven", "AccessDenied"}

\* decryptData up to its request to the decryption service (lines 202-227).
\* It reads the ledger between two transactions.
DecryptData(c, dataId) ==
    /\ stack = <<>>
    /\ attempts[c].phase \in Finished
    /\ dataId < aggregatedCount
    /\ attempts' =
           [attempts EXCEPT ![c] =
               IF ShortCircuits(dataId)
               THEN [phase |-> "AlreadyProven", target |-> dataId,
                     handle |-> 0, payload |-> NoPayload,
                     value |-> StoredValue(dataId)]
               ELSE Requested(RequestResult(c, GetEncryptedValue(dataId)),
                              dataId, GetEncryptedValue(dataId))]
    /\ UNCHANGED <<storage, acl, balance, events, stack, last, proven>>

\* A request made to the decryption service directly, for any handle, to be
\* committed to the entry dataId.
RequestDecryption(c, dataId, h) ==
    /\ stack = <<>>
    /\ attempts[c].phase \in Finished
    /\ dataId < aggregatedCount
    /\ attempts' = [attempts EXCEPT ![c] =
                       Requested(RequestResult(c, h), dataId, h)]
    /\ UNCHANGED <<storage, acl, balance, events, stack, last, proven>>

\* The decryption service answers the request.
ServiceRespond(c, payload) ==
    /\ attempts[c].phase = "Requested"
    /\ payload \in Payloads(attempts[c].handle)
    /\ attempts' = [attempts EXCEPT ![c].phase = "ProofReceived",
                                    ![c].payload = payload]
    /\ UNCHANGED <<storage, acl, balance, events, stack, last, proven>>

\* The decryption service fails, or the hook gives up on it: the hook throws
\* and decryptData ends in its catch (lines 255-257).
ServiceFail(c) ==
    /\ attempts[c].phase = "Requested"
    /\ attempts' = [attempts EXCEPT ![c].phase = "Failed"]
    /\ UNCHANGED <<storage, acl, balance, events, stack, last, proven>>

\* The contract's verifyDecryption: it refuses an entry that is verified,
\* then checks the proof against the handle it stores.
VerifyResult_NoProofCheck(dataId, payload) ==
    IF proven[dataId].isVerified THEN AlreadyVerified ELSE Ok

VerifyResult_NoGuard(dataId, payload) ==
    IF ~CheckSignatures(aggregatedData[dataId].encryptedHeatmapValue, payload)
    THEN ProofInvalid
    ELSE Ok

VerifyResult(dataId, payload) ==
    IF proven[dataId].isVerified THEN AlreadyVerified
    ELSE IF ~CheckSignatures(aggregatedData[dataId].encryptedHeatmapValue,
                             payload)
    THEN ProofInvalid
    ELSE Ok

\* A decryptData without its catch: the call ends as if committed whatever
\* the ledger answered.
Outcome_IgnoresRefusal(r, attempt) ==
    [attempt EXCEPT !.phase = "Committed", !.value = attempt.payload.clear]

\* A catch that hands back the service's clear value although the commit was
\* refused.
Outcome_ValueOnRefusal(r, attempt) ==
    IF r = Ok
    THEN [attempt EXCEPT !.phase = "Committed", !.value = attempt.payload.clear]
    ELSE IF r = AlreadyVerified
    THEN [attempt EXCEPT !.phase = "AlreadyProven", !.value = Null]
    ELSE [attempt EXCEPT !.phase = "Failed", !.value = attempt.payload.clear]

\* A catch without the branch of lines 248-252: every refusal is a failure.
Outcome_RefusalIsFailure(r, attempt) ==
    IF r = Ok
    THEN [attempt EXCEPT !.phase = "Committed", !.value = attempt.payload.clear]
    ELSE [attempt EXCEPT !.phase = "Failed", !.value = Null]

\* How decryptData ends once the commit has been answered: lines 236-245
\* when it went through, lines 248-252 when the entry was verified meanwhile,
\* lines 255-257 otherwise.
Outcome(r, attempt) ==
    IF r = Ok
    THEN [attempt EXCEPT !.phase = "Committed", !.value = attempt.payload.clear]
    ELSE IF r = AlreadyVerified
    THEN [attempt EXCEPT !.phase = "AlreadyProven", !.value = Null]
    ELSE [attempt EXCEPT !.phase = "Failed", !.value = Null]

\* verifyDecryption(dataId, clear values, proof), as any caller may submit
\* it to the ledger.
VerifyDecryption(dataId, payload) ==
    LET r == VerifyResult(dataId, payload)
    IN  /\ stack = <<>>
        /\ dataId < aggregatedCount
        /\ last' = Call("verifyDecryption", r)
        /\ IF r = Ok
           THEN /\ proven' = [proven EXCEPT ![dataId] =
                                 [isVerified |-> TRUE,
                                  decryptedValue |-> payload.clear]]
                /\ events' = <<DecryptionVerified(dataId, payload.clear)>>
           ELSE /\ events' = <<>>
                /\ UNCHANGED proven
        /\ UNCHANGED <<storage, acl, balance, stack>>

\* The callback of lines 230-231 submits the payload to the ledger, and
\* decryptData ends by what the ledger answers.
CommitDecryption(c) ==
    /\ attempts[c].phase = "ProofReceived"
    /\ VerifyDecryption(attempts[c].target, attempts[c].payload)
    /\ attempts' = [attempts EXCEPT ![c] = Outcome(last'.result, attempts[c])]

\* The ledger with the commit of a decryption as one more call.  The calls are
\* made with arguments that pass their input checks, and each table holds at
\* most MaxTargets entries.
Targets == 0 .. (MaxTargets - 1)

NextLedger ==
    \/ \E sender \in Principals, now \in Times, ct \in ValidCiphertexts :
           /\ recordCount < MaxTargets
           /\ AddTrafficRecord(sender, now, ct, ct, ct)
           /\ UNCHANGED <<prevW, verification, atEmit>>
    \/ \E sender \in Principals, heatmap \in ValidCiphertexts :
           /\ aggregatedCount < MaxTargets
           /\ CreateAggregatedData(sender, heatmap, 1, 2, 2)
           /\ UNCHANGED <<prevW, verification, atEmit>>
    \/ \E sender \in Principals, dataId \in Targets :
           /\ PurchaseData(sender, dataId, 2)
           /\ UNCHANGED <<prevW, verification, atEmit>>
    \/ \E sender \in Principals :
           /\ Withdraw(sender)
           /\ UNCHANGED <<prevW, verification, atEmit>>
    \/ TransferReturn /\ UNCHANGED <<prevW, verification, atEmit>>
    \/ TransferFail /\ UNCHANGED <<prevW, verification, atEmit>>
    \/ \E dataId \in Targets :
           \E payload \in Payloads(GetEncryptedValue(dataId)) :
               VerifyDecryption(dataId, payload) /\ UNCHANGED <<prevW, attempts, atEmit>>

SpecLedger == Init /\ [][NextLedger]_vars

\* The machine of the decryption protocol: the clients' decryptData calls
\* over a ledger of datasets and sales.
NextDecrypt ==
    \/ \E sender \in Principals, heatmap \in ValidCiphertexts :
           /\ aggregatedCount < MaxTargets
           /\ CreateAggregatedData(sender, heatmap, 1, 2, 2)
           /\ UNCHANGED <<prevW, verification, atEmit>>
    \/ \E sender \in Principals, dataId \in Targets :
           /\ PurchaseData(sender, dataId, 2)
           /\ UNCHANGED <<prevW, verification, atEmit>>
    \/ \E c \in Principals, dataId \in Targets :
           DecryptData(c, dataId) /\ UNCHANGED <<prevW, atEmit>>
    \/ \E c \in Principals, dataId \in Targets, h \in Handles :
           RequestDecryption(c, dataId, h) /\ UNCHANGED <<prevW, atEmit>>
    \/ \E c \in Principals :
           \E payload \in Payloads(attempts[c].handle) :
               ServiceRespond(c, payload) /\ UNCHANGED <<prevW, atEmit>>
    \/ \E c \in Principals : ServiceFail(c) /\ UNCHANGED <<prevW, atEmit>>
    \/ \E c \in Principals : CommitDecryption(c) /\ UNCHANGED <<prevW, atEmit>>

SpecDecrypt == Init /\ [][NextDecrypt]_vars

\* ------------------------------------------------- the storage at an emit
\* The ledger with, next to each logged event, the storage as it stands when
\* the emit statement runs.  The calls are made with valid ciphertexts and
\* time ranges, and each table holds at most MaxTargets entries.
StorageAt(records, nRecords, data, nData, w) ==
    [trafficRecords |-> records, recordCount |-> nRecords,
     aggregatedData |-> data, aggregatedCount |-> nData, withdrawals |-> w]

\* addTrafficRecord: the record is written (lines 51-57), the event is
\* emitted (line 67), and only then is recordCount incremented (line 68).
AtAddEmit ==
    StorageAt(trafficRecords', recordCount, aggregatedData, aggregatedCount,
              withdrawals)

\* createAggregatedData: written at lines 82-89, emitted at line 94,
\* aggregatedCount incremented at line 95.
AtCreateEmit ==
    StorageAt(trafficRecords, recordCount, aggregatedData', aggregatedCount,
              withdrawals)

\* purchaseData: lines 103 and 104 are done when line 106 emits.
AtPurchaseEmit ==
    StorageAt(trafficRecords, recordCount, aggregatedData', aggregatedCount,
              withdrawals')

\* withdraw: line 116 emits once the transfer has returned; the balance was
\* zeroed at line 113.
AtWithdrawEmit ==
    StorageAt(trafficRecords, recordCount, aggregatedData, aggregatedCount,
              withdrawals)

NextEmit ==
    \/ \E sender \in Principals, now \in Times, ct \in ValidCiphertexts :
           /\ recordCount < MaxTargets
           /\ AddTrafficRecord(sender, now, ct, ct, ct)
           /\ atEmit' = IF events' = <<>> THEN <<>> ELSE <<AtAddEmit>>
           /\ UNCHANGED <<prevW, verification>>
    \/ \E sender \in Principals, heatmap \in ValidCiphertexts, price \in Prices :
           /\ aggregatedCount < MaxTargets
           /\ CreateAggregatedData(sender, heatmap, 1, 2, price)
           /\ atEmit' = IF events' = <<>> THEN <<>> ELSE <<AtCreateEmit>>
           /\ UNCHANGED <<prevW, verification>>
    \/ \E sender \in Principals, dataId \in Targets, value \in Prices :
           /\ PurchaseData(sender, dataId, value)
           /\ atEmit' = IF events' = <<>> THEN <<>> ELSE <<AtPurchaseEmit>>
           /\ UNCHANGED <<prevW, verification>>
    \/ \E sender \in Principals :
           /\ Withdraw(sender)
           /\ atEmit' = IF stack = <<>> THEN <<>> ELSE atEmit
           /\ UNCHANGED <<prevW, verification>>
    \/ /\ TransferReturn
       /\ atEmit' = Append(atEmit, AtWithdrawEmit)
       /\ UNCHANGED <<prevW, verification>>
    \/ /\ TransferFail
       /\ atEmit' = SubSeq(atEmit, 1, Len(Top.snap.events))
       /\ UNCHANGED <<prevW, verification>>

SpecEmit == Init /\ [][NextEmit]_vars

\* ---------------------------------------------------------------- claims
\* In the action formulas below "B \/ ~A" stands for "A => B", with the
\* cheaper side first.

\* All that a call can write: the contract's storage, the access lists and
\* the ether it holds.
chain == <<storage, acl, balance>>

Exists(dataId) == dataId < aggregatedCount
Sold(dataId) == Exists(dataId) /\ aggregatedData[dataId].isSold
OwnerOf(dataId) == aggregatedData[dataId].owner

\* C1: a dataset is purchased at most once.  A purchase of a sold dataset
\* fails with AlreadySold whoever calls and whatever is paid, and credits
\* nothing; a sold flag never goes back to false; a successful purchase finds
\* the dataset unsold, leaves it sold and adds exactly msg.value to the
\* owner's balance; and no other step raises a balance, except the revert of a
\* withdraw, which puts back what that withdraw took.
C1_PurchaseAtMostOnce ==
    [][ /\ \/ last'.op # "purchaseData"
           \/ /\ last'.result = AlreadySold =>
                      withdrawals' = withdrawals /\ balance' = balance
              /\ \A sender \in Principals, dataId \in DataIds,
                    value \in Values :
                     \/ IF Sold(dataId)
                        THEN last'.result = AlreadySold
                        ELSE last'.result # Ok
                     \/ ~PurchaseData(sender, dataId, value)
                     \/ /\ ~Sold(dataId)
                        /\ aggregatedData'[dataId].isSold
                        /\ withdrawals' =
                               [withdrawals EXCEPT ![OwnerOf(dataId)] = @ + value]
        /\ \A dataId \in DataIds :
               aggregatedData[dataId].isSold => aggregatedData'[dataId].isSold
        /\ \A p \in Principals :
               withdrawals'[p] > withdrawals[p] =>
                   \/ /\ last' = Call("purchaseData", Ok)
                      /\ \E dataId \in DataIds :
                             /\ OwnerOf(dataId) = p
                             /\ ~aggregatedData[dataId].isSold
                             /\ aggregatedData'[dataId].isSold
                   \/ /\ last' = Call("transfer", TransferFailed)
                      /\ withdrawals' = Top.snap.withdrawals
      ]_vars

\* A second purchase was refused while the owner holds the first payment,
\* overpayment included.
C1_Witness ==
    /\ last = Call("purchaseData", AlreadySold)
    /\ \E dataId \in DataIds :
           /\ Sold(dataId)
           /\ withdrawals[OwnerOf(dataId)] > aggregatedData[dataId].price

\* C2: while the payee of a withdraw holds control (the transfer is under
\* way) its balance is already zero, the ether that left the contract is
\* exactly the balance it had when the withdraw began, and a withdraw it calls
\* re-entrantly fails with NoFunds and moves nothing.
C2_InTransfer ==
    stack # <<>> =>
        /\ Len(stack) = 1
        /\ withdrawals[Top.sender] = 0
        /\ Top.amount = Top.snap.withdrawals[Top.sender]
        /\ Top.snap.balance - balance = Top.amount

C2_ReentrantWithdrawFails ==
    [][ /\ C2_InTransfer'
        /\ \/ stack = <<>>
           \/ last'.op # "withdraw"
           \/ \A sender \in Principals :
                  \/ /\ last'.result = NoFunds
                     /\ UNCHANGED <<chain, stack, events>>
                  \/ ~Withdraw(sender)
      ]_vars

\* The payee called withdraw during the transfer and was refused.
C2_Witness ==
    /\ stack # <<>>
    /\ last = Call("withdraw", NoFunds)
    /\ Top.amount > 0

\* C3: the escrow balances add up to the ether the contract holds, that is
\* the payments of the successful purchases less what the withdraws have
\* transferred out, and no balance is negative.
C3_EscrowBacked ==
    /\ SumOver(withdrawals, Principals) = balance
    /\ \A p \in Principals : withdrawals[p] >= 0

\* One principal has withdrawn while the other still holds an overpaid sale.
C3_Witness ==
    /\ last = Call("transfer", Ok)
    /\ \E p \in Principals : withdrawals[p] = 3
    /\ \A dataId \in DataIds : Sold(dataId)

\* C5: withdraw with a zero balance fails with NoFunds and changes nothing:
\* no ether moves, no Withdrawal is logged, no balance changes.
C5_NoFundsRejected ==
    [][ \/ last'.op # "withdraw"
        \/ \A sender \in Principals :
               \/ withdrawals[sender] # 0
               \/ ~Withdraw(sender)
               \/ /\ last'.result = NoFunds
                  /\ UNCHANGED <<chain, stack>>
                  /\ \A i \in DOMAIN events' :
                         events'[i].name = "Withdrawal" =>
                             i \in DOMAIN events /\ events'[i] = events[i]
      ]_vars

\* A transaction's withdraw was refused while the other principal has funds.
C5_Witness ==
    /\ last = Call("withdraw", NoFunds)
    /\ stack = <<>>
    /\ events = <<>>
    /\ balance > 0

\* What purchase(datasetId, paymentAmount) must answer.
PurchaseExpected(dataId, value) ==
    IF dataId >= aggregatedCount THEN NotFound
    ELSE IF aggregatedData[dataId].isSold THEN AlreadySold
    ELSE IF value < aggregatedData[dataId].price THEN InsufficientPayment
    ELSE Ok

\* C6: purchaseData fails with NotFound for an id that is not below the
\* count, with AlreadySold for a sold dataset, with InsufficientPayment for an
\* unsold one paid below its price, and succeeds in every other case.
C6_PurchaseErrors ==
    [][ \/ last'.op # "purchaseData"
        \/ \A sender \in Principals, dataId \in 0 .. MaxDatasets,
              value \in Values :
               \/ last'.result = PurchaseExpected(dataId, value)
               \/ ~PurchaseData(sender, dataId, value)
      ]_vars

\* An id equal to the count was refused although a dataset exists.
C6_Witness ==
    /\ last = Call("purchaseData", NotFound)
    /\ aggregatedCount = 1

\* C7: a purchase that must fail changes nothing: the sold flags, the
\* balances and the ether held stay as they were and nothing is logged.
C7_FailedPurchaseNoEffect ==
    [][ \/ last'.op # "purchaseData"
        \/ UNCHANGED chain /\ events' = <<>>
        \/ \A sender \in Principals, dataId \in 0 .. MaxDatasets,
              value \in Values :
               \/ PurchaseExpected(dataId, value) = Ok
               \/ ~PurchaseData(sender, dataId, value)
      ]_vars

\* An underpaid purchase was refused; the dataset is still for sale.
C7_Witness ==
    /\ last = Call("purchaseData", InsufficientPayment)
    /\ \E dataId \in DataIds : Exists(dataId) /\ ~Sold(dataId)
    /\ balance = 0

\* A ciphertext that passes the input check.
ValidInput(ct) == ct.proofOk /\ ct.handle # 0
ValidInputs == {ct \in ExternalInputs : ValidInput(ct)}

C9_DatasetIdIsCount ==
    [][ \/ last' # Call("createAggregatedData", Ok)
        \/ \A sender \in Principals, heatmap \in ExternalInputs,
              startTime, endTime \in Times, price \in Prices :
               \/ ~CreateAggregatedData(sender, heatmap, startTime, endTime,
                                        price)
               \/ /\ events' = <<AggregatedDataCreated(aggregatedCount, sender)>>
                  /\ aggregatedCount' = aggregatedCount + 1
                  /\ aggregatedData'[aggregatedCount] =
                         [encryptedHeatmapValue |-> heatmap.handle,
                          startTime |-> startTime,
                          endTime |-> endTime,
                          price |-> price,
                          owner |-> sender,
                          isSold |-> FALSE]
      ]_vars

\* The second dataset was created, by another owner than the first.
C9_Witness ==
    /\ last = Call("createAggregatedData", Ok)
    /\ aggregatedCount = 2
    /\ events = <<AggregatedDataCreated(1, 2)>>
    /\ aggregatedData[0].owner = 1

\* Every stored dataset has startTime < endTime and price > 0.
StoredWellFormed ==
    \A dataId \in DataIds :
        Exists(dataId) =>
            /\ aggregatedData[dataId].startTime < aggregatedData[dataId].endTime
            /\ aggregatedData[dataId].price > 0

\* C10 as stated: createAggregatedData answers InvalidTimeRange whenever
\* startTime >= endTime and InvalidPrice whenever price = 0, creates nothing
\* in both cases, and every stored dataset is well formed.
C10_AsStated ==
    [][ /\ StoredWellFormed'
        /\ \/ last'.op # "createAggregatedData"
           \/ \A sender \in Principals, heatmap \in ExternalInputs,
                 startTime, endTime \in Times, price \in Prices :
                  \/ /\ startTime >= endTime =>
                            last'.result = InvalidTimeRange /\ UNCHANGED chain
                     /\ price = 0 =>
                            last'.result = InvalidPrice /\ UNCHANGED chain
                  \/ ~CreateAggregatedData(sender, heatmap, startTime, endTime,
                                           price)
      ]_vars

\* C10, amended: createAggregatedData fails and creates nothing whenever
\* startTime >= endTime or price = 0; the reason is that of the first check
\* that fails, in the order ciphertext, time range, price: InvalidTimeRange
\* for a valid ciphertext with startTime >= endTime, InvalidPrice for a valid
\* ciphertext with startTime < endTime and price = 0.  Every stored dataset is
\* well formed.
C10_InvalidDatasetRejected ==
    [][ /\ StoredWellFormed'
        /\ \/ last'.op # "createAggregatedData"
           \/ /\ last'.result # Ok => UNCHANGED chain /\ events' = <<>>
              /\ \A sender \in Principals, heatmap \in ExternalInputs,
                    startTime, endTime \in Times, price \in Prices :
                  \/ /\ (startTime >= endTime \/ price = 0) =>
                            last'.result # Ok
                     /\ (ValidInput(heatmap) /\ startTime >= endTime) =>
                            last'.result = InvalidTimeRange
                     /\ (ValidInput(heatmap) /\ startTime < endTime
                            /\ price = 0) =>
                            last'.result = InvalidPrice
                  \/ ~CreateAggregatedData(sender, heatmap, startTime, endTime,
                                           price)
      ]_vars

\* A second dataset with a bad time range was refused; the first one stands.
C10_Witness ==
    /\ last = Call("createAggregatedData", InvalidTimeRange)
    /\ aggregatedCount = 1
    /\ events = <<>>

\* The step ends a withdraw that a transaction of p made, with result r.
EndsWithdraw(p, r) ==
    \/ /\ last' = Call("withdraw", r)
       /\ r # Pending
       /\ stack = <<>>
       /\ Withdraw(p)
    \/ /\ last' = Call("transfer", r)
       /\ Len(stack) = 1
       /\ Top.sender = p
       /\ TransferReturn \/ TransferFail

WithdrawOutcomes == {Ok, NoFunds, TransferFailed}

\* C4 as stated: of two successive withdraws of a principal, the first begun
\* with a positive balance and no purchase of its datasets in between, exactly
\* one succeeds and one fails with NoFunds.
C4_AsStated ==
    [][ \/ last'.op \notin {"withdraw", "transfer"}
        \/ \A p \in Principals, r \in WithdrawOutcomes :
               \/ prevW[p] \notin {Ok, TransferFailed}
               \/ {prevW[p], r} = {Ok, NoFunds}
               \/ ~EndsWithdraw(p, r)
      ]_vars

\* C4, amended: a withdraw begun with a positive balance ends in success or,
\* when the payee refuses the ether, in a failed transfer.  A success has
\* transferred the whole balance and left it zero, and the next withdraw of
\* that principal, with no purchase of its datasets in between, fails with
\* NoFunds.  A failed transfer leaves the balance as it was, so the next
\* withdraw is again one begun with a positive balance.
C4_WithdrawPairs ==
    [][ \/ last'.op \notin {"withdraw", "transfer"}
        \/ \A p \in Principals, r \in WithdrawOutcomes :
               \/ ~EndsWithdraw(p, r)
               \/ /\ prevW[p] = Ok => r = NoFunds
                  /\ r = NoFunds <=> (stack = <<>> /\ withdrawals[p] = 0)
                  /\ r = Ok =>
                         /\ Top.amount = Top.snap.withdrawals[p]
                         /\ Top.snap.balance - balance' = Top.amount
                         /\ withdrawals'[p] = 0
                  /\ r = TransferFailed =>
                         /\ stack # <<>>
                         /\ withdrawals'[p] = Top.snap.withdrawals[p]
                         /\ withdrawals'[p] > 0
                         /\ balance' = Top.snap.balance
      ]_vars

\* A success was followed by a NoFunds failure.
C4_Witness ==
    /\ last = Call("withdraw", NoFunds)
    /\ \E p \in Principals : prevW[p] = "paired"

\* The reasons with which the validation of a submitted ciphertext fails:
\* the revert of FHE.fromExternal on a bad proof, or the require on the handle
\* it yields.
InvalidCiphertext ==
    {InvalidProof, InvalidSpeed, InvalidLocationX, InvalidLocationY,
     InvalidHeatmap}

\* C11: addTrafficRecord is all-or-nothing.  A call in which the proof of any
\* of the three ciphertexts fails, fails with a ciphertext error and leaves
\* no trace: no record, the same count, no access grant, no public mark, no
\* event.
C11_SubmitAllOrNothing ==
    [][ \/ last'.op # "addTrafficRecord"
        \/ /\ last'.result \in InvalidCiphertext
           /\ UNCHANGED chain
           /\ events' = <<>>
        \/ \A sender \in Principals, now \in Times,
              speed, locX, locY \in ExternalInputs :
               \/ speed.proofOk /\ locX.proofOk /\ locY.proofOk
               \/ ~AddTrafficRecord(sender, now, speed, locX, locY)
      ]_vars

\* A submission was refused for its proof on an empty ledger, and no handle
\* has been given a grant or a mark.
C11_Witness ==
    /\ last = Call("addTrafficRecord", InvalidProof)
    /\ recordCount = 0
    /\ allowedThis = {}
    /\ publiclyDecryptable = {}

\* The ids a caller may ask for: those of the two tables and the first one
\* beyond each.
AskedRecordIds == 0 .. MaxRecords
AskedDataIds == 0 .. MaxDatasets

\* The getters answer by the counts alone, and for an id below the count
\* they hand back the fields held under that id.
C12_Answers ==
    /\ \A recordId \in AskedRecordIds :
           /\ GetTrafficRecord(recordId).result = InvalidRecordId
                  <=> recordId >= recordCount
           /\ recordId < recordCount =>
                  /\ GetTrafficRecord(recordId).result = Ok
                  /\ GetTrafficRecord(recordId).returned =
                         <<trafficRecords[recordId].encryptedSpeed,
                           trafficRecords[recordId].encryptedLocationX,
                           trafficRecords[recordId].encryptedLocationY,
                           trafficRecords[recordId].timestamp,
                           trafficRecords[recordId].vehicleOwner>>
    /\ \A dataId \in AskedDataIds :
           /\ GetAggregatedData(dataId).result = NotFound
                  <=> dataId >= aggregatedCount
           /\ dataId < aggregatedCount =>
                  /\ GetAggregatedData(dataId).result = Ok
                  /\ GetAggregatedData(dataId).returned =
                         <<aggregatedData[dataId].encryptedHeatmapValue,
                           aggregatedData[dataId].startTime,
                           aggregatedData[dataId].endTime,
                           aggregatedData[dataId].price,
                           aggregatedData[dataId].owner,
                           aggregatedData[dataId].isSold>>

\* C12: getTrafficRecord fails with 'Invalid record ID' exactly for the ids
\* not below recordCount and getAggregatedData with 'Invalid data ID' exactly
\* for the ids not below aggregatedCount.  For an id below the count the
\* getter returns the entry stored when the id was allocated: what it returns
\* right after the allocation is what it returns ever after, the sold flag of
\* a dataset apart, which it returns as it stands.
C12_AccessorsBounded ==
    /\ []C12_Answers
    /\ [][ \/ UNCHANGED <<trafficRecords, aggregatedData,
                          recordCount, aggregatedCount>>
           \/ /\ \A recordId \in RecordIds :
                     recordId < recordCount =>
                         GetTrafficRecord(recordId)' = GetTrafficRecord(recordId)
              /\ \A dataId \in DataIds :
                     dataId < aggregatedCount =>
                         /\ GetAggregatedData(dataId)'.result = Ok
                         /\ \A i \in 1 .. 5 :
                                GetAggregatedData(dataId)'.returned[i] =
                                    GetAggregatedData(dataId).returned[i]
                         /\ GetAggregatedData(dataId)'.returned[6] =
                                aggregatedData'[dataId].isSold
         ]_vars

\* A record and two datasets are stored, one of them sold: each getter has
\* ids it answers and an id it refuses.
C12_Witness ==
    /\ GetTrafficRecord(0).result = Ok
    /\ GetTrafficRecord(0).returned[5] = 2
    /\ GetTrafficRecord(1).result = InvalidRecordId
    /\ GetAggregatedData(0).result = Ok
    /\ GetAggregatedData(0).returned[6] = TRUE
    /\ GetAggregatedData(1).result = Ok
    /\ GetAggregatedData(1).returned[6] = FALSE
    /\ GetAggregatedData(2).result = NotFound

\* ---- C13
\* The verified value of a dataset is written only by a commit whose proof
\* passes the check against the handle stored for that dataset: a step that
\* changes it is a verifyDecryption call that went through, made by an attempt
\* holding a proof for the stored handle, it takes the entry from unverified
\* to verified, and the value stored is the clear value the proof attests.
\* Hence every verified entry holds the clear value of its stored handle, and
\* an unverified entry holds none.
C13_Attested ==
    \A d \in DataIds :
        IF proven[d].isVerified
        THEN /\ d < aggregatedCount
             /\ proven[d].decryptedValue = ClearOf(GetEncryptedValue(d))
        ELSE proven[d] = Unverified

C13_ProvenOnlyByVerifiedCommit ==
    /\ C13_Attested
    /\ [][ \/ proven' = proven
           \/ /\ last' = Call("verifyDecryption", Ok)
              /\ C13_Attested'
              /\ \A d \in DataIds :
                    \/ proven'[d] = proven[d]
                    \/ /\ ~proven[d].isVerified
                       /\ proven'[d].isVerified
                       /\ \E c \in Principals :
                             /\ attempts[c].phase = "ProofReceived"
                             /\ attempts[c].target = d
                             /\ attempts'[c].phase = "Committed"
                             /\ CheckSignatures(GetEncryptedValue(d),
                                                attempts[c].payload)
                             /\ attempts[c].payload.proof.value
                                    = proven'[d].decryptedValue
                             /\ attempts'[c].value = proven'[d].decryptedValue
       ]_vars

C13_Witness ==
    /\ last = Call("verifyDecryption", Ok)
    /\ \E c \in Principals :
          /\ attempts[c].phase = "Committed"
          /\ proven[attempts[c].target].isVerified
          /\ proven[attempts[c].target].decryptedValue = attempts[c].value

\* ---- C14
\* A commit whose proof fails the check ends the attempt in Failed with
\* ProofInvalid and leaves the ledger as it was: the entry stays unverified,
\* its sold flag and every escrow balance are untouched, and no event is
\* logged.  A failure does not block the entry: whatever attempts failed
\* before, a commit with a correct proof on an unverified entry goes through.
C14_FailedCommitChangesNothing ==
    [][ \/ last'.op # "verifyDecryption"
        \/ \A c \in Principals :
              \/ ~CommitDecryption(c)
              \/ proven[attempts[c].target].isVerified
              \/ IF CheckSignatures(GetEncryptedValue(attempts[c].target),
                                    attempts[c].payload)
                 THEN /\ last'.result = Ok
                      /\ attempts'[c].phase = "Committed"
                      /\ proven'[attempts[c].target].isVerified
                 ELSE /\ last'.result = ProofInvalid
                      /\ attempts'[c].phase = "Failed"
                      /\ attempts'[c].value = Null
                      /\ UNCHANGED <<proven, chain>>
                      /\ events' = <<>>
      ]_vars

\* One attempt on an entry has failed and another has since committed it: the
\* ledger refuses a bad proof only while the entry is unverified.
C14_Witness ==
    \E c1, c2 \in Principals :
        /\ attempts[c1].phase = "Failed"
        /\ ~CheckSignatures(attempts[c1].handle, attempts[c1].payload)
        /\ attempts[c1].payload # NoPayload
        /\ attempts[c2].phase = "Committed"
        /\ attempts[c1].target = attempts[c2].target
        /\ proven[attempts[c2].target].isVerified
        /\ Sold(attempts[c2].target)
        /\ last = Call("verifyDecryption", Ok)

\* ---- C15
\* A commit with a valid proof on an unverified entry stores the clear value
\* and logs the verification.  A verified entry keeps its value for ever: a
\* second decryptData for it returns the value first committed without a
\* transaction, leaving escrow and sold flags alone, and a commit that still
\* reaches the ledger for it is refused, writes nothing and logs no second
\* verification.
C15_Commit(c) ==
    LET d == attempts[c].target
    IN  IF proven[d].isVerified
        THEN /\ last'.result = AlreadyVerified
             /\ events' = <<>>
             /\ UNCHANGED <<proven, chain>>
        ELSE \/ ~CheckSignatures(GetEncryptedValue(d), attempts[c].payload)
             \/ /\ proven'[d] = [isVerified |-> TRUE,
                                 decryptedValue |-> attempts[c].payload.clear]
                /\ events' = <<DecryptionVerified(d, attempts[c].payload.clear)>>
                /\ attempts'[c].value = attempts[c].payload.clear

C15_SecondDecryptIdempotent ==
    [][ \/ attempts' = attempts
        \/ /\ \A d \in DataIds :
                 proven[d].isVerified => proven'[d] = proven[d]
           /\ \A c \in Principals :
                 /\ ~CommitDecryption(c) \/ C15_Commit(c)
                 /\ \A d \in Targets :
                       \/ ~proven[d].isVerified
                       \/ ~DecryptData(c, d)
                       \/ /\ attempts'[c].phase = "AlreadyProven"
                          /\ attempts'[c].value = proven[d].decryptedValue
                          /\ proven'[d] = proven[d]
                          /\ UNCHANGED <<chain, events, last>>
      ]_vars

\* A client has committed an entry and then asked for it again.
C15_Witness ==
    \E c \in Principals :
        /\ attempts[c].phase = "AlreadyProven"
        /\ attempts[c].value = ClearOf(GetEncryptedValue(attempts[c].target))
        /\ last = Call("verifyDecryption", Ok)
        /\ events = <<DecryptionVerified(attempts[c].target, attempts[c].value)>>
        /\ \A c2 \in Principals \ {c} : attempts[c2].phase = "Idle"

\* ---- C16
\* decryptData for an entry that is already verified ends at once in
\* AlreadyProven with the stored value: it asks the decryption service for
\* nothing, holds no handle and no payload, sends no transaction, and the
\* attempt never becomes Requested; the client's next step is a new call.
C16_ShortCircuitIsWhole ==
    [][ \/ attempts' = attempts
        \/ \A c \in Principals :
              /\ \A d \in Targets :
                    \/ ~proven[d].isVerified
                    \/ ~DecryptData(c, d)
                    \/ /\ attempts'[c] =
                              [phase |-> "AlreadyProven", target |-> d,
                               handle |-> 0, payload |-> NoPayload,
                               value |-> proven[d].decryptedValue]
                       /\ last' = last
              /\ \/ attempts[c].phase # "AlreadyProven"
                 \/ attempts'[c] = attempts[c]
                 \/ \E d \in Targets :
                       \/ DecryptData(c, d)
                       \/ \E h \in Handles : RequestDecryption(c, d, h)
      ]_vars

\* An entry committed by one client, asked for by the other one, which never
\* requested anything.
C16_Witness ==
    \E c1, c2 \in Principals :
        /\ attempts[c1].phase = "Committed"
        /\ attempts[c2] = [phase |-> "AlreadyProven",
                           target |-> attempts[c1].target,
                           handle |-> 0, payload |-> NoPayload,
                           value |-> attempts[c1].value]
        /\ attempts[c2].value = proven[attempts[c2].target].decryptedValue

\* ---- C17
\* As stated: of two attempts on one entry only the first commit writes the
\* verified value, and the other one, refused by the ledger, ends without an
\* error yielding the stored value.
C17_FirstWriterWins(c) ==
    /\ last'.result = AlreadyVerified
    /\ events' = <<>>
    /\ UNCHANGED <<proven, chain>>
    /\ attempts'[c].phase = "AlreadyProven"

C17_AsStated ==
    [][ \/ last'.op # "verifyDecryption"
        \/ \A c \in Principals :
              \/ ~CommitDecryption(c)
              \/ ~proven[attempts[c].target].isVerified
              \/ /\ C17_FirstWriterWins(c)
                 /\ attempts'[c].value
                        = proven[attempts[c].target].decryptedValue
      ]_vars

\* As the code has it: the refused attempt ends without an error but with no
\* value (line 252 returns null); the entry keeps the first value, and a new
\* decryptData by the same client is then the short-circuit that returns it.
C17_LoserEndsWithoutValue ==
    [][ \/ last'.op # "verifyDecryption"
        \/ \A c \in Principals :
              \/ ~CommitDecryption(c)
              \/ ~proven[attempts[c].target].isVerified
              \/ /\ C17_FirstWriterWins(c)
                 /\ attempts'[c].value = Null
                 /\ ShortCircuits(attempts[c].target)'
                 /\ StoredValue(attempts[c].target)'
                        = proven[attempts[c].target].decryptedValue
      ]_vars

\* Both clients requested the same entry before either committed; one has
\* committed and the other was refused.
C17_Witness ==
    \E c1, c2 \in Principals :
        /\ attempts[c1].phase = "Committed"
        /\ attempts[c2].phase = "AlreadyProven"
        /\ attempts[c2].target = attempts[c1].target
        /\ attempts[c2].handle = attempts[c1].handle
        /\ attempts[c2].handle # 0
        /\ attempts[c2].value = Null
        /\ proven[attempts[c1].target].decryptedValue = attempts[c1].value
        /\ last = Call("verifyDecryption", AlreadyVerified)

\* ---- C18
\* Once an entry exists nothing rewrites it, with two exceptions on a dataset:
\* its sold flag, which goes from false to true and never back, and its
\* verified value, which goes from unset to set and never changes again.  A
\* record's owner, timestamp and three handles, and a dataset's owner, handle,
\* time range and price, stay as they were stored.
C18_Frozen(data) == [data EXCEPT !.isSold = FALSE]

C19_Dense ==
    /\ \A recordId \in RecordIds :
          (recordId < recordCount) <=> (trafficRecords[recordId] # ZeroRecord)
    /\ \A dataId \in DataIds :
          (dataId < aggregatedCount) <=> (aggregatedData[dataId] # ZeroData)

StoredHandles ==
    { trafficRecords[i].encryptedSpeed : i \in 0 .. (recordCount - 1) }
        \cup { trafficRecords[i].encryptedLocationX : i \in 0 .. (recordCount - 1) }
        \cup { trafficRecords[i].encryptedLocationY : i \in 0 .. (recordCount - 1) }
        \cup { aggregatedData[i].encryptedHeatmapValue :
                   i \in 0 .. (aggregatedCount - 1) }

ProtocolState(attempt) ==
    CASE attempt.phase \in {"Requested", "ProofReceived", "Committed"} ->
             attempt.phase
      [] attempt.phase = "Failed" -> "Failed"
      [] attempt.phase = "AlreadyProven" /\ attempt.handle # 0 -> "Failed"
      [] OTHER -> "Idle"

\* A new call of decryptData by client c: a new attempt.
NewAttempt(c) ==
    \E d \in Targets :
        \/ DecryptData(c, d)
        \/ \E h \in Handles : RequestDecryption(c, d, h)

\* An attempt moves only along Idle -> Requested -> ProofReceived ->
\* Committed, and to Failed only from Requested or ProofReceived.  It becomes
\* Committed only from ProofReceived, in a verifyDecryption call that went
\* through for a payload passing the check.  Committed and Failed are
\* terminal: the client's record changes again only by a new call, which
\* starts a new attempt from Idle.
C21_AttemptStateMachine ==
    [][ \/ attempts' = attempts
        \/ \A c \in Principals :
              LET from == ProtocolState(attempts[c])
                  to == ProtocolState(attempts'[c])
              IN  \/ attempts'[c] = attempts[c]
                  \/ /\ from \in {"Idle", "Committed", "Failed"}
                     /\ to \in {"Idle", "Requested"}
                     /\ NewAttempt(c)
                  \/ /\ from = "Requested"
                     /\ to \in {"ProofReceived", "Failed"}
                     /\ attempts'[c].target = attempts[c].target
                  \/ /\ from = "ProofReceived"
                     /\ to = "Failed"
                     /\ last'.op = "verifyDecryption"
                     /\ last'.result # Ok
                     /\ attempts'[c].target = attempts[c].target
                  \/ /\ from = "ProofReceived"
                     /\ to = "Committed"
                     /\ last' = Call("verifyDecryption", Ok)
                     /\ CheckSignatures(GetEncryptedValue(attempts[c].target),
                                        attempts[c].payload)
                     /\ proven'[attempts[c].target].isVerified
                     /\ attempts'[c].target = attempts[c].target
      ]_vars

\* One client's attempt has committed, the other's has failed at the
\* decryption service.
C21_Witness ==
    \E c1, c2 \in Principals :
        /\ ProtocolState(attempts[c1]) = "Committed"
        /\ ProtocolState(attempts[c2]) = "Failed"
        /\ attempts[c2].phase = "Failed"
        /\ attempts[c2].payload = NoPayload

\* ---- C22
\* A request that is abandoned stays Requested: no call on the ledger and no
\* other client's step moves it, only the decryption service answering or
\* failing, and it holds no lock.  While one client's attempt on an entry
\* sits in Requested, another client can start its own attempt on that entry,
\* and its commit with a passing payload goes through, the first attempt
\* still sitting in Requested.  Over all attempts at most one commit writes
\* an entry's verified value: a commit goes through only on an unverified
\* entry, and a verified entry stays as it is.
C22_NoLock ==
    \A c1, c2 \in Principals, d \in Targets :
        \/ c1 = c2
        \/ attempts[c1].phase # "Requested"
        \/ attempts[c1].target # d
        \/ attempts[c2].phase \notin Finished
        \/ d >= aggregatedCount
        \/ ENABLED DecryptData(c2, d)

C22_AbandonedRequestBlocksNothing ==
    /\ []C22_NoLock
    /\ [][ \/ UNCHANGED verification
           \/ /\ \A c \in Principals :
                    \/ attempts[c].phase # "Requested"
                    \/ attempts'[c] = attempts[c]
                    \/ /\ attempts'[c].phase \in {"ProofReceived", "Failed"}
                       /\ UNCHANGED <<chain, proven, last, events>>
              /\ \A c1, c2 \in Principals :
                    \/ c1 = c2
                    \/ attempts[c1].phase # "Requested"
                    \/ attempts[c1].target # attempts[c2].target
                    \/ proven[attempts[c2].target].isVerified
                    \/ /\ \/ ~DecryptData(c2, attempts[c1].target)
                          \/ attempts'[c2].phase = "Requested"
                       /\ \/ ~CommitDecryption(c2)
                          \/ ~CheckSignatures(
                                 GetEncryptedValue(attempts[c2].target),
                                 attempts[c2].payload)
                          \/ /\ last'.result = Ok
                             /\ attempts'[c2].phase = "Committed"
                             /\ attempts'[c1] = attempts[c1]
              /\ \A d \in DataIds :
                    /\ proven[d].isVerified => proven'[d] = proven[d]
                    /\ \/ proven'[d] = proven[d]
                       \/ /\ last' = Call("verifyDecryption", Ok)
                          /\ events' = <<DecryptionVerified(
                                             d, proven'[d].decryptedValue)>>
              /\ \/ last' = last
                 \/ last'.result # Ok
                 \/ \E d \in Targets :
                       /\ ~proven[d].isVerified
                       /\ proven'[d].isVerified
       ]_vars

\* One client's request for an entry is still pending while the other client
\* has committed the same entry.
C22_Witness ==
    \E c1, c2 \in Principals :
        /\ attempts[c1].phase = "Requested"
        /\ attempts[c2].phase = "Committed"
        /\ attempts[c1].target = attempts[c2].target
        /\ proven[attempts[c2].target].isVerified
        /\ last = Call("verifyDecryption", Ok)

\* ---- C23
\* What an event announces, looked for in the storage s the emit found.
Announced(e, s) ==
    CASE e.name = "TrafficRecordAdded" ->
             /\ s.trafficRecords[e.id] # ZeroRecord
             /\ s.trafficRecords[e.id].vehicleOwner = e.addr
             /\ e.id < s.recordCount
      [] e.name = "AggregatedDataCreated" ->
             /\ s.aggregatedData[e.id] # ZeroData
             /\ s.aggregatedData[e.id].owner = e.addr
             /\ e.id < s.aggregatedCount
      [] e.name = "DataSold" -> s.aggregatedData[e.id].isSold
      [] e.name = "Withdrawal" -> s.withdrawals[e.addr] = 0
      [] OTHER -> FALSE

\* As stated: for addTrafficRecord, createAggregatedData, purchaseData and
\* withdraw the write precedes the event.  When TrafficRecordAdded(id),
\* AggregatedDataCreated(id), DataSold(id) or Withdrawal(payee, amount) is
\* emitted, what it announces is in the storage: the entry id is written and
\* counted by recordCount or aggregatedCount, the dataset is sold, the
\* payee's balance is zero.
C23_AsStated ==
    /\ Len(atEmit) = Len(events)
    /\ \A i \in DOMAIN events : Announced(events[i], atEmit[i])

\* What the code has: the entry is written when its event is emitted, but
\* not yet counted; a sale and a withdrawal are complete when announced.
C23_WrittenNotCounted ==
    /\ Len(atEmit) = Len(events)
    /\ \A i \in DOMAIN events :
          LET e == events[i]
              s == atEmit[i]
          IN  CASE e.name = "TrafficRecordAdded" ->
                       /\ s.trafficRecords[e.id] # ZeroRecord
                       /\ s.recordCount = e.id
                [] e.name = "AggregatedDataCreated" ->
                       /\ s.aggregatedData[e.id] # ZeroData
                       /\ s.aggregatedCount = e.id
                [] OTHER -> Announced(e, s)

C23_Witness ==
    /\ events = <<TrafficRecordAdded(0, 1)>>
    /\ atEmit[1].recordCount = 0
    /\ recordCount = 1
    /\ aggregatedCount > 0
    /\ \E p \in Principals : withdrawals[p] > 0

\* ---- C24
\* createAggregatedData checks the ciphertext and its proof first, then
\* startTime < endTime, then price > 0, and reports the first check that
\* fails: an invalid ciphertext gives the ciphertext error whatever the time
\* range and the price, a valid one with startTime >= endTime gives
\* InvalidTimeRange also when the price is 0, and InvalidPrice is left for a
\* valid ciphertext with a good time range.  A call that fails leaves no
\* grant and no mark on the value: the access lists are as before.
InvalidHeatmapCiphertext == {InvalidProof, InvalidHeatmap}

C24_CreateChecksInOrder ==
    [][ \/ last'.op # "createAggregatedData"
        \/ /\ \/ last'.result = Ok
              \/ UNCHANGED <<acl, storage>>
           /\ \A heatmap \in ExternalInputs, startTime, endTime \in Times,
                 price \in Prices :
                  \/ last'.result =
                         ( IF ~ValidInput(heatmap)
                           THEN IF heatmap.proofOk THEN InvalidHeatmap
                                ELSE InvalidProof
                           ELSE IF startTime >= endTime THEN InvalidTimeRange
                           ELSE IF price = 0 THEN InvalidPrice
                           ELSE Ok )
                  \/ \A sender \in Principals :
                         ~CreateAggregatedData(sender, heatmap, startTime,
                                               endTime, price)
      ]_vars

\* A creation was refused for its ciphertext on a ledger that holds a record
\* and no dataset: the only grants are the record's.
C24_Witness ==
    /\ last.op = "createAggregatedData"
    /\ last.result \in InvalidHeatmapCiphertext
    /\ aggregatedCount = 0
    /\ recordCount > 0
    /\ allowedThis = RecordHandles(trafficRecords[0])
    /\ publiclyDecryptable = allowedThis

\* ---- C25
\* When the transfer made by withdraw fails, the whole withdraw is undone:
\* the caller's balance is again what it was when the call began, the other
\* balances and the rest of the storage are untouched, the contract holds
\* the ether again, and no Withdrawal event is logged for the call.  The
\* funds stay withdrawable: the balance is positive and covered by the
\* contract's ether, so a later withdraw passes line 111 and can be paid.
C25_FailedTransferUndone ==
    [][ \/ last'.result # TransferFailed
        \/ /\ last'.op = "withdraw"
           /\ UNCHANGED <<chain, stack>>
        \/ /\ last'.op = "transfer"
           /\ stack # <<>>
           /\ withdrawals'[Top.sender] = Top.amount
           /\ Top.amount > 0
           /\ \A p \in Principals \ {Top.sender} :
                 withdrawals'[p] = withdrawals[p]
           /\ balance' = balance + Top.amount
           /\ UNCHANGED <<trafficRecords, aggregatedData, recordCount,
                          aggregatedCount, acl>>
           /\ \A i \in DOMAIN events' : events'[i].name # "Withdrawal"
           /\ Len(events') <= Len(events)
           /\ WithdrawResult(withdrawals'[Top.sender]) = Pending
           /\ balance' >= withdrawals'[Top.sender]
      ]_vars

\* The payee has refused a transfer: the transaction is over, its balance is
\* still there and nothing is logged.
C25_Witness ==
    /\ last = Call("transfer", TransferFailed)
    /\ stack = <<>>
    /\ events = <<>>
    /\ \E p \in Principals :
          /\ withdrawals[p] > 0
          /\ balance >= withdrawals[p]
          /\ \E d \in DataIds : Sold(d) /\ OwnerOf(d) = p

\* ---- C26
\* A purchase that succeeds changes the sold flag of the dataset bought and
\* the balance of its owner, and nothing else in the storage: the other
\* datasets and the other fields of this one, the records, both counters,
\* the access lists and every other principal's balance, the buyer's
\* included when the buyer is not the owner, are as before.  A withdraw that
\* succeeds changes the caller's balance and nothing else in the storage,
\* from the zeroing of line 113 to the return of the transfer.
C26_PurchaseFrame(d) ==
    /\ aggregatedData' = [aggregatedData EXCEPT ![d].isSold = TRUE]
    /\ ~aggregatedData[d].isSold
    /\ \A p \in Principals \ {OwnerOf(d)} : withdrawals'[p] = withdrawals[p]
    /\ withdrawals'[OwnerOf(d)] >= withdrawals[OwnerOf(d)]
    /\ events' = <<DataSold(d, events'[1].addr)>>

C26_WithdrawFrame(p) ==
    /\ \A q \in Principals \ {p} : withdrawals'[q] = withdrawals[q]
    /\ withdrawals'[p] = 0
    /\ withdrawals[p] > 0
    /\ UNCHANGED aggregatedData

C26_OnlyTheirOwnWrites ==
    [][ \/ last'.result \notin {Ok, Pending}
        \/ last'.op \notin {"purchaseData", "withdraw", "transfer"}
        \/ /\ UNCHANGED <<trafficRecords, recordCount, aggregatedCount, acl>>
           /\ \/ /\ last'.op = "purchaseData"
                 /\ \E d \in DataIds : Exists(d) /\ C26_PurchaseFrame(d)
              \/ /\ last'.op = "withdraw"
                 /\ stack' # <<>>
                 /\ C26_WithdrawFrame(stack'[Len(stack')].sender)
              \/ /\ last'.op = "transfer"
                 /\ UNCHANGED <<withdrawals, aggregatedData>>
      ]_vars

\* Two datasets of different owners, one of them sold; the seller has since
\* withdrawn, and the other owner's balance is as it was.
C26_Witness ==
    /\ last = Call("transfer", Ok)
    /\ aggregatedCount > 1
    /\ \E d1, d2 \in DataIds :
          /\ Exists(d1) /\ Exists(d2)
          /\ Sold(d1) /\ ~Sold(d2)
          /\ OwnerOf(d1) # OwnerOf(d2)
          /\ events = <<Withdrawal(OwnerOf(d1), aggregatedData[d1].price)>>
          /\ withdrawals[OwnerOf(d1)] = 0
          /\ withdrawals[OwnerOf(d2)] = 0

\* ---- C27
\* decryptData returns a value other than null for an entry only when that
\* entry's verified value is on the ledger, either found there when the call
\* began or committed by the call's own verifyDecryption, and the value it
\* returns is the one the ledger holds for the entry.  When the decryption
\* service fails or the ledger refuses the commit it returns null.
C27_Returned ==
    \A c \in Principals :
        /\ \/ attempts[c].value = Null
           \/ /\ attempts[c].phase \in {"AlreadyProven", "Committed"}
              /\ proven[attempts[c].target].isVerified
              /\ attempts[c].value = StoredValue(attempts[c].target)
              /\ attempts[c].value = proven[attempts[c].target].decryptedValue
        /\ \/ attempts[c].phase \in {"AlreadyProven", "Committed"}
           \/ attempts[c].value = Null

C27_ReturnsOnlyCommittedValue ==
    /\ []C27_Returned
    /\ [][ \/ attempts' = attempts
           \/ \A c \in Principals :
                 /\ \/ ~ServiceFail(c)
                    \/ attempts'[c].value = Null
                 /\ \/ ~CommitDecryption(c)
                    \/ IF last'.result = Ok
                       THEN /\ attempts'[c].value # Null
                            /\ ~proven[attempts[c].target].isVerified
                            /\ proven'[attempts[c].target].decryptedValue
                                   = attempts'[c].value
                       ELSE /\ attempts'[c].value = Null
                            /\ UNCHANGED proven
                 /\ \/ attempts'[c].value = Null
                    \/ attempts'[c] = attempts[c]
                    \/ CommitDecryption(c) /\ last'.result = Ok
                    \/ \E d \in Targets :
                          /\ DecryptData(c, d)
                          /\ proven[d].isVerified
       ]_vars

\* One client has its value from its own commit, the other from the ledger,
\* and they are the same.
C27_Witness ==
    \E c1, c2 \in Principals :
        /\ attempts[c1].phase = "Committed"
        /\ attempts[c2].phase = "AlreadyProven"
        /\ attempts[c1].target = attempts[c2].target
        /\ attempts[c1].value # Null
        /\ attempts[c2].value = attempts[c1].value

====
